---- MODULE Spec2Model ----
(***************************************************************************)
(* Model of nbdev_example/core.py: generate_crd(config:dict={}).           *)
(*                                                                         *)
(* Python objects live in a heap of dicts addressed by position.  A value  *)
(* is either a literal (written as its Python repr) or a reference to a    *)
(* heap object.  Every statement of generate_crd (lines 9-15) is one       *)
(* action of the calling thread; callers keep the records returned to them *)
(* and may modify them afterwards.                                         *)
(***************************************************************************)
EXTENDS Integers, Sequences, FiniteSets, TLC

\* ------------------------------------------------------------------ bounds
NumCallers == 2
MaxCalls == 2
MaxMutations == 1

Callers == 1..NumCallers
\* the thread of the single-caller specifications
MainCaller == CHOOSE c \in Callers : \A d \in Callers : c <= d

\* ------------------------------------------------------------------ values
Lit(s) == [tag |-> "lit", lit |-> s, ref |-> 0]
Ref(a) == [tag |-> "ref", lit |-> "", ref |-> a]
NoneVal == Lit("None")

\* the literals of lines 11-14
DefaultN == Lit("2")
DefaultB == Lit("1")
\* variant: the sign of the default of d lost
DefaultDPositive == Lit("10")
DefaultD == Lit("-10")
DefaultPr == Lit("0.5")

RecognizedKeys == {"n", "b", "d", "pr"}
ExtraKeys == {"extra_key"}
InputKeys == RecognizedKeys \cup ExtraKeys
\* values a caller supplies: a truthy one and a falsy one, both non-default
InputValues == {Lit("5"), NoneVal}
\* the caller mappings of the multi-call specifications
SmallKeys == {"n", "extra_key"}
\* the caller mappings of the concurrent specification
ConcKeys == {"n"}

\* ------------------------------------------------------------------ dicts
EmptyDict == [k \in {} |-> NoneVal]

\* variant: config.get(k) or default
DictGetFalsy(dct, k, default) ==
    IF k \in DOMAIN dct /\ dct[k] # NoneVal THEN dct[k] ELSE default

\* dict.get(k, default)
DictGet(dct, k, default) ==
    IF k \in DOMAIN dct THEN dct[k] ELSE default

\* dict.__setitem__(k, v)
DictSet(dct, k, v) ==
    [x \in (DOMAIN dct) \cup {k} |-> IF x = k THEN v ELSE dct[x]]

\* dict.__delitem__(k)
DictDel(dct, k) ==
    [x \in (DOMAIN dct) \ {k} |-> dct[x]]

DictsOver(keys) ==
    UNION {[dom -> InputValues] : dom \in SUBSET keys}

\* ------------------------------------------------------------------ state
VARIABLES
    heap,       \* the allocated dicts, by address
    pc,         \* pc[c]: "idle" or the line caller c's call executes next
    config,     \* config[c]: the parameter of caller c's frame
    game,       \* game[slot]: the local variable game (0 = unbound)
    kind,       \* kind[c]: how caller c made its current call
    log,        \* log[c]: caller c's completed calls, oldest first
    input0,     \* input0[c]: contents of caller c's mapping when it was built
    met,        \* met[c]: threads inside a call at some time during c's call
    ncalls,     \* calls started
    nmuts       \* modifications callers made to returned records

vars == <<heap, pc, config, game, kind, log, input0, met, ncalls, nmuts>>

\* the one dict built when the def statement is executed (line 7)
DefaultAddr == 1
\* caller c's own mapping
InputAddr(c) == 1 + c

Kinds == {"config", "default", "None"}

\* the object bound to config for a call of the given kind
ArgFor(c, k) ==
    CASE k = "config" -> Ref(InputAddr(c))
      [] k = "default" -> Ref(DefaultAddr)
      [] k = "None" -> NoneVal

\* ------------------------------------------------------------------ code
\* the addresses the allocator hands to thread c
Arena(c) == {1 + NumCallers + c + NumCallers * j : j \in 0..(2 * MaxCalls - 1)}

\* variant: one cached object per thread instead of a new one
AllocCached(h, c) == 1 + NumCallers + c

\* address of the next object thread c allocates: one not in use
Alloc(h, c) ==
    CHOOSE a \in Arena(c) \ DOMAIN h :
        \A b \in Arena(c) \ DOMAIN h : a <= b

\* the heap with a new empty dict at address a
New(h, a) == [x \in (DOMAIN h) \cup {a} |-> IF x = a THEN EmptyDict ELSE h[x]]

\* variant: game declared global, one binding for all calls
GameSlotShared(c) == MainCaller

\* game is a local of the frame of the call
GameSlot(c) == c

\* variant: config = config or {} ahead of line 9
HasGetAny(v) == TRUE

\* attribute lookup config.get succeeds
HasGet(v) == v.tag = "ref"

\* the mapping config.get reads
ConfigDict(h, cfg) == IF cfg.tag = "ref" THEN h[cfg.ref] ELSE EmptyDict

\* variant: game['parameters'] = config
ParamsObjectAlias(a, cfg) == IF cfg.tag = "ref" THEN cfg ELSE Ref(a)

\* the value of the display {} on line 10, allocated at a
ParamsObject(a, cfg) == Ref(a)

\* line 9: game = {}, the dict allocated at a
Stmt9(h, a) == New(h, a)

\* line 10: game['parameters'] = {}, the inner dict allocated at a
Stmt10(h, g, cfg, a) ==
    IF g \in DOMAIN h
    THEN [New(h, a) EXCEPT ![g] = DictSet(@, "parameters", ParamsObject(a, cfg))]
    ELSE New(h, a)

\* game['parameters'][k] = v
Store(h, g, k, v) ==
    LET p == IF g \in DOMAIN h THEN DictGet(h[g], "parameters", NoneVal)
             ELSE NoneVal
    IN  IF p.tag = "ref" THEN [h EXCEPT ![p.ref] = DictSet(@, k, v)] ELSE h

\* variant: config.setdefault('n', 2)
Stmt11SetDefault(h, g, cfg) ==
    LET v == DictGet(ConfigDict(h, cfg), "n", DefaultN)
        h1 == IF cfg.tag = "ref"
              THEN [h EXCEPT ![cfg.ref] = DictSet(@, "n", v)] ELSE h
    IN  Store(h1, g, "n", v)

\* line 11: game['parameters']['n'] = config.get('n', 2)
Stmt11(h, g, cfg) ==
    Store(h, g, "n", DictGet(ConfigDict(h, cfg), "n", DefaultN))

\* variant: config.get('n', 1)
Stmt12WrongKey(h, g, cfg) ==
    Store(h, g, "b", DictGet(ConfigDict(h, cfg), "n", DefaultB))

\* line 12: game['parameters']['b'] = config.get('b', 1)
Stmt12(h, g, cfg) ==
    Store(h, g, "b", DictGet(ConfigDict(h, cfg), "b", DefaultB))

\* variant: config.get('d', config.get('extra_key', -10))
Stmt13Extra(h, g, cfg) ==
    Store(h, g, "d",
          DictGet(ConfigDict(h, cfg), "d",
                  DictGet(ConfigDict(h, cfg), "extra_key", DefaultD)))

\* line 13: game['parameters']['d'] = config.get('d', -10)
Stmt13(h, g, cfg) ==
    Store(h, g, "d", DictGet(ConfigDict(h, cfg), "d", DefaultD))

\* variant: game['parameters']['p'] = ...
Stmt14Typo(h, g, cfg) ==
    Store(h, g, "p", DictGet(ConfigDict(h, cfg), "pr", DefaultPr))

\* line 14: game['parameters']['pr'] = config.get('pr', 0.5)
Stmt14(h, g, cfg) ==
    Store(h, g, "pr", DictGet(ConfigDict(h, cfg), "pr", DefaultPr))

\* ------------------------------------------------------------------ views
\* address of the parameters dict of the record at a (0 = none)
ParamsAddr(h, a) ==
    IF a \in DOMAIN h /\ "parameters" \in DOMAIN h[a]
       /\ h[a]["parameters"].tag = "ref"
    THEN h[a]["parameters"].ref ELSE 0

\* the record at a, by value
Snapshot(h, a) ==
    [outer |-> IF a \in DOMAIN h THEN DOMAIN h[a] ELSE {},
     params |-> IF ParamsAddr(h, a) # 0 THEN h[ParamsAddr(h, a)] ELSE EmptyDict]

\* ------------------------------------------------------------------ steps
\* a caller invokes generate_crd: with its mapping, without argument, or
\* with None
Call(c) ==
    /\ pc[c] = "idle"
    /\ ncalls < MaxCalls
    /\ \E k \in Kinds :
        /\ kind' = [kind EXCEPT ![c] = k]
        /\ config' = [config EXCEPT ![c] = ArgFor(c, k)]
    /\ pc' = [pc EXCEPT ![c] = "l9"]
    /\ met' = [d \in Callers |->
                 IF d = c THEN {x \in Callers \ {c} : pc[x] # "idle"}
                 ELSE IF pc[d] # "idle" THEN met[d] \cup {c} ELSE met[d]]
    /\ ncalls' = ncalls + 1
    /\ UNCHANGED <<heap, game, log, input0, nmuts>>

L9(c) ==
    /\ pc[c] = "l9"
    /\ game' = [game EXCEPT ![GameSlot(c)] = Alloc(heap, c)]
    /\ heap' = Stmt9(heap, Alloc(heap, c))
    /\ pc' = [pc EXCEPT ![c] = "l10"]
    /\ UNCHANGED <<config, kind, log, input0, ncalls, nmuts, met>>

L10(c) ==
    /\ pc[c] = "l10"
    /\ heap' = Stmt10(heap, game[GameSlot(c)], config[c], Alloc(heap, c))
    /\ pc' = [pc EXCEPT ![c] = "l11"]
    /\ UNCHANGED <<config, game, kind, log, input0, ncalls, nmuts, met>>

L11(c) ==
    /\ pc[c] = "l11"
    /\ HasGet(config[c])
    /\ heap' = Stmt11(heap, game[GameSlot(c)], config[c])
    /\ pc' = [pc EXCEPT ![c] = "l12"]
    /\ UNCHANGED <<config, game, kind, log, input0, ncalls, nmuts, met>>

L12(c) ==
    /\ pc[c] = "l12"
    /\ HasGet(config[c])
    /\ heap' = Stmt12(heap, game[GameSlot(c)], config[c])
    /\ pc' = [pc EXCEPT ![c] = "l13"]
    /\ UNCHANGED <<config, game, kind, log, input0, ncalls, nmuts, met>>

L13(c) ==
    /\ pc[c] = "l13"
    /\ HasGet(config[c])
    /\ heap' = Stmt13(heap, game[GameSlot(c)], config[c])
    /\ pc' = [pc EXCEPT ![c] = "l14"]
    /\ UNCHANGED <<config, game, kind, log, input0, ncalls, nmuts, met>>

L14(c) ==
    /\ pc[c] = "l14"
    /\ HasGet(config[c])
    /\ heap' = Stmt14(heap, game[GameSlot(c)], config[c])
    /\ pc' = [pc EXCEPT ![c] = "l15"]
    /\ UNCHANGED <<config, game, kind, log, input0, ncalls, nmuts, met>>

\* what the caller notes when a call ends
Entry(c, status, ret) ==
    [kind |-> kind[c], status |-> status, ret |-> ret,
     pa |-> ParamsAddr(heap, ret), snap |-> Snapshot(heap, ret),
     muts |-> nmuts,
     overlap |-> met[c]]

\* line 15: return game
L15(c) ==
    /\ pc[c] = "l15"
    /\ log' = [log EXCEPT ![c] = Append(@, Entry(c, "returned", game[GameSlot(c)]))]
    /\ pc' = [pc EXCEPT ![c] = "idle"]
    /\ config' = [config EXCEPT ![c] = NoneVal]
    /\ game' = [game EXCEPT ![GameSlot(c)] = 0]
    /\ UNCHANGED <<heap, kind, input0, ncalls, nmuts, met>>

\* config.get on an object without that attribute: AttributeError leaves
\* the frame, nothing is returned
Raise(c) ==
    /\ pc[c] \in {"l11", "l12", "l13", "l14"}
    /\ ~HasGet(config[c])
    /\ log' = [log EXCEPT ![c] = Append(@, Entry(c, "AttributeError", 0))]
    /\ pc' = [pc EXCEPT ![c] = "idle"]
    /\ config' = [config EXCEPT ![c] = NoneVal]
    /\ game' = [game EXCEPT ![GameSlot(c)] = 0]
    /\ UNCHANGED <<heap, kind, input0, ncalls, nmuts, met>>

CallStep(c) ==
    \/ Call(c)
    \/ L9(c)
    \/ L10(c)
    \/ L11(c)
    \/ L12(c)
    \/ L13(c)
    \/ L14(c)
    \/ L15(c)
    \/ Raise(c)

\* ------------------------------------------------------------------ Spec
InitWith(inp) ==
    /\ input0 = inp
    /\ heap = [a \in {DefaultAddr} \cup {InputAddr(c) : c \in Callers} |->
                  IF a = DefaultAddr THEN EmptyDict ELSE inp[a - 1]]
    /\ pc = [c \in Callers |-> "idle"]
    /\ config = [c \in Callers |-> NoneVal]
    /\ game = [c \in Callers |-> 0]
    /\ kind = [c \in Callers |-> "default"]
    /\ log = [c \in Callers |-> <<>>]
    /\ met = [c \in Callers |-> {}]
    /\ ncalls = 0
    /\ nmuts = 0

\* only the main caller has a mapping of its own
OnlyMain(p) == [c \in Callers |-> IF c = MainCaller THEN p ELSE EmptyDict]

\* one caller, every mapping over the recognized keys and an extra one
Init == \E p \in DictsOver(InputKeys) : InitWith(OnlyMain(p))

Next == CallStep(MainCaller)

Spec == Init /\ [][Next]_vars

\* --------------------------------------------------------------- SpecOwn
\* objects the caller reaches through the record returned at address a
Reach(h, a) == {a} \cup ({ParamsAddr(h, a)} \ {0})

MutKeys == {"n", "extra_key", "parameters"}
MutValue == Lit("99")

\* the caller adds, rebinds or removes a key of a record returned to it
Mutate(c) ==
    /\ pc[c] = "idle"
    /\ nmuts < MaxMutations
    /\ \E i \in 1..Len(log[c]) :
        /\ log[c][i].status = "returned"
        /\ \E t \in Reach(heap, log[c][i].ret) :
            \/ \E k \in MutKeys :
                   heap' = [heap EXCEPT ![t] = DictSet(@, k, MutValue)]
            \/ \E k \in DOMAIN heap[t] :
                   heap' = [heap EXCEPT ![t] = DictDel(@, k)]
    /\ nmuts' = nmuts + 1
    /\ UNCHANGED <<pc, config, game, kind, log, input0, ncalls, met>>

\* one caller that keeps and modifies what it gets back
InitOwn == \E p \in DictsOver(SmallKeys) : InitWith(OnlyMain(p))

NextOwn ==
    \/ CallStep(MainCaller)
    \/ Mutate(MainCaller)

SpecOwn == InitOwn /\ [][NextOwn]_vars

\* -------------------------------------------------------------- SpecConc
\* several threads, each with its own mapping, calling at the same time
InitConc == \E inp \in [Callers -> DictsOver(ConcKeys)] : InitWith(inp)

NextConc == \E c \in Callers : CallStep(c)

SpecConc == InitConc /\ [][NextConc]_vars

\* ================================================================ claims
\* the defaults as section 3 of the specification lists them
ListedDefaults ==
    [n |-> Lit("2"), b |-> Lit("1"), d |-> Lit("-10"), pr |-> Lit("0.5")]

\* the record section 8 gives for generate() and generate({})
AllDefaultsModel == [outer |-> {"parameters"}, params |-> ListedDefaults]

\* partial[key] if present, else the listed default
Merged(p) ==
    [k \in RecognizedKeys |-> IF k \in DOMAIN p THEN p[k] ELSE ListedDefaults[k]]

\* the mapping restricted to the given keys
Restrict(p, keys) == [k \in (DOMAIN p) \cap keys |-> p[k]]

\* the completed calls of caller c
Entries(c) == {log[c][i] : i \in 1..Len(log[c])}
Returned(c) == {e \in Entries(c) : e.status = "returned"}

\* the mapping a completed call was given, an absent argument read as empty
Passed(c, e) == IF e.kind = "config" THEN input0[c] ELSE EmptyDict

\* C1: for each recognized key k the returned parameters hold p[k] when k is
\* a key of the mapping p passed, else the fixed default of k; the value of
\* one key does not depend on the other keys of p.
C1_PerKeyMerge ==
    \A e \in Returned(MainCaller) :
        e.kind = "config" =>
            \A k \in RecognizedKeys :
                /\ k \in DOMAIN e.snap.params
                /\ e.snap.params[k] =
                       IF k \in DOMAIN input0[MainCaller]
                       THEN input0[MainCaller][k] ELSE ListedDefaults[k]

\* generate({n: 5}) has returned {parameters: {n: 5, b: 1, d: -10, pr: 0.5}}
C1_Witness ==
    \E e \in Returned(MainCaller) :
        /\ e.kind = "config"
        /\ input0[MainCaller] = [n |-> Lit("5")]
        /\ e.snap.params =
               [n |-> Lit("5"), b |-> Lit("1"), d |-> Lit("-10"), pr |-> Lit("0.5")]

\* C2: every returned record has the single key 'parameters', bound to a
\* dict whose keys are exactly n, b, d, pr, whatever the input contains.
C2_ExactKeys ==
    \A e \in Returned(MainCaller) :
        /\ e.snap.outer = {"parameters"}
        /\ e.pa # 0
        /\ DOMAIN e.snap.params = {"n", "b", "d", "pr"}

\* a call has returned for a mapping with an unrecognized key and without pr
C2_Witness ==
    \E e \in Returned(MainCaller) :
        /\ e.kind = "config"
        /\ "extra_key" \in DOMAIN input0[MainCaller]
        /\ "pr" \notin DOMAIN input0[MainCaller]
        /\ DOMAIN e.snap.params = {"n", "b", "d", "pr"}

\* C3: a call with an explicit empty mapping and a call without argument
\* return the same record, {parameters: {n: 2, b: 1, d: -10, pr: 0.5}}.
C3_EmptyIsDefault ==
    \A e \in Returned(MainCaller) :
        (e.kind = "default" \/ (e.kind = "config" /\ input0[MainCaller] = EmptyDict))
            => e.snap = AllDefaultsModel

\* generate({}) and generate() have both returned, with equal records
C3_Witness ==
    /\ input0[MainCaller] = EmptyDict
    /\ \E e1, e2 \in Returned(MainCaller) :
        /\ e1.kind = "config"
        /\ e2.kind = "default"
        /\ e1.snap = e2.snap

\* C4: unrecognized keys have no effect: the returned record is the one
\* determined by the recognized keys of the mapping alone, and no
\* unrecognized key appears in it.
C4_ExtraKeysIgnored ==
    \A e \in Returned(MainCaller) :
        e.kind = "config" =>
            /\ e.snap.params = Merged(Restrict(input0[MainCaller], RecognizedKeys))
            /\ (DOMAIN e.snap.params) \cap ExtraKeys = {}
            /\ e.snap.outer \cap ExtraKeys = {}

\* generate({extra_key: 5}) has returned the all-defaults record
C4_Witness ==
    \E e \in Returned(MainCaller) :
        /\ e.kind = "config"
        /\ input0[MainCaller] = [extra_key |-> Lit("5")]
        /\ e.snap = AllDefaultsModel

\* C5 as stated: an absent argument and None are both treated as an empty
\* mapping, so both calls return the all-defaults record.
C5_NoneAsEmpty ==
    \A e \in Entries(MainCaller) :
        e.kind \in {"default", "None"} =>
            /\ e.status = "returned"
            /\ e.snap = AllDefaultsModel

\* C5 amended: an absent argument is treated as an empty mapping and the
\* call returns the all-defaults record; a call with None returns nothing,
\* it ends with AttributeError.
C5_AbsentAsEmptyNoneRaises ==
    \A e \in Entries(MainCaller) :
        /\ e.kind = "default" =>
            /\ e.status = "returned"
            /\ e.snap = AllDefaultsModel
        /\ e.kind = "None" =>
            /\ e.status = "AttributeError"
            /\ e.ret = 0

\* generate_crd() has returned and generate_crd(None) has raised
C5_Witness ==
    \E e1, e2 \in Entries(MainCaller) :
        /\ e1.kind = "default" /\ e1.status = "returned"
        /\ e2.kind = "None" /\ e2.status = "AttributeError"

\* C6 as stated: no call fails, whatever the input, and a value supplied
\* under a recognized key is passed through unchanged.
C6_NeverFails ==
    \A e \in Entries(MainCaller) :
        /\ e.status = "returned"
        /\ \A k \in RecognizedKeys \cap DOMAIN Passed(MainCaller, e) :
               /\ k \in DOMAIN e.snap.params
               /\ e.snap.params[k] = Passed(MainCaller, e)[k]

\* C6 amended: a call given a mapping, or no argument, never fails, and a
\* value supplied under a recognized key is passed through unchanged, None
\* and other falsy values included.
C6_MappingNeverFails ==
    \A e \in Entries(MainCaller) :
        e.kind \in {"config", "default"} =>
            /\ e.status = "returned"
            /\ \A k \in RecognizedKeys \cap DOMAIN Passed(MainCaller, e) :
                   /\ k \in DOMAIN e.snap.params
                   /\ e.snap.params[k] = Passed(MainCaller, e)[k]

\* a call given {.., n: None, ..} has returned with n bound to None
C6_Witness ==
    \E e \in Returned(MainCaller) :
        /\ e.kind = "config"
        /\ "n" \in DOMAIN input0[MainCaller]
        /\ input0[MainCaller]["n"] = NoneVal
        /\ "n" \in DOMAIN e.snap.params
        /\ e.snap.params["n"] = NoneVal

\* C7: the caller's mapping has the same keys and values after the call
\* (and at every point of it) as before.
C7_InputUnchanged ==
    \A c \in Callers :
        /\ InputAddr(c) \in DOMAIN heap
        /\ heap[InputAddr(c)] = input0[c]

\* a call has returned for a mapping that lacks n, b, d and pr
C7_Witness ==
    \E e \in Returned(MainCaller) :
        /\ e.kind = "config"
        /\ (DOMAIN input0[MainCaller]) \cap RecognizedKeys = {}
        /\ heap[InputAddr(MainCaller)] = input0[MainCaller]

\* the objects a returned record consisted of when it was returned
Owned(e) == {e.ret, e.pa}

\* the mappings that are not part of any returned record
Givens == {DefaultAddr} \cup {InputAddr(c) : c \in Callers}

\* addresses whose dict a step changes
Changed == {a \in DOMAIN heap : heap'[a] # heap[a]}

C8_Fresh ==
    \A c \in Callers : \A i \in 1..Len(log[c]) :
        LET e == log[c][i] IN
        e.status = "returned" =>
            /\ e.pa # 0
            /\ e.pa # e.ret
            /\ Owned(e) \cap Givens = {}
            /\ \A j \in 1..Len(log[c]) :
                   (j # i /\ log[c][j].status = "returned") =>
                       /\ Owned(e) \cap Owned(log[c][j]) = {}
                       /\ log[c][j].kind = e.kind => log[c][j].snap = e.snap

C8_Isolated ==
    nmuts' # nmuts =>
        \E c \in Callers : \E e \in Returned(c) :
            /\ Changed \subseteq Owned(e)
            /\ \A f \in Returned(c) \ {e} : Snapshot(heap', f.ret) = Snapshot(heap, f.ret)
            /\ \A a \in Givens : heap'[a] = heap[a]

\* C8: two calls with the same input return structurally equal records made
\* of freshly allocated dicts, shared with no other record and with no
\* input; a caller adding, removing or rebinding a key of one record changes
\* no other record, no input mapping and not what a later call returns.
C8_IndependentRecords == [](C8_Fresh) /\ [][C8_Isolated]_vars

\* the first of two records of the same input was modified before the
\* second call; the second record is what the first was when returned
C8_Witness ==
    /\ Len(log[MainCaller]) >= 2
    /\ LET e1 == log[MainCaller][1]
           e2 == log[MainCaller][2]
       IN  /\ e1.status = "returned" /\ e2.status = "returned"
           /\ e1.kind = "config" /\ e2.kind = "config"
           /\ e2.muts >= 1
           /\ Snapshot(heap, e1.ret) # e1.snap
           /\ Snapshot(heap, e2.ret) = e1.snap

\* C9: under every interleaving of the statements of concurrent calls, each
\* call ends the way it ends when run alone on its own input: with a
\* mapping or no argument it returns the merge of its own input with the
\* defaults, and no mapping passed is changed.
C9_ConcurrentAsAlone ==
    /\ \A c \in Callers : \A e \in Entries(c) :
        IF e.kind = "None"
        THEN e.status = "AttributeError"
        ELSE /\ e.status = "returned"
             /\ e.snap = [outer |-> {"parameters"}, params |-> Merged(Passed(c, e))]
    /\ \A a \in Givens : heap[a] = IF a = DefaultAddr THEN EmptyDict ELSE input0[a - 1]

\* two calls that ran at the same time on different inputs have returned
C9_Witness ==
    \E c, d \in Callers : \E e \in Returned(c) : \E f \in Returned(d) :
        /\ c # d
        /\ d \in e.overlap
        /\ c \in f.overlap
        /\ e.kind = "config" /\ f.kind = "config"
        /\ input0[c] # input0[d]
        /\ e.snap # f.snap

\* C10: the mapping reused as the default argument stays empty in every
\* reachable state, and every call without argument returns the
\* all-defaults record, whatever calls and modifications of returned records
\* came before.
C10_DefaultStaysEmpty ==
    /\ heap[DefaultAddr] = EmptyDict
    /\ \A c \in Callers : \A e \in Entries(c) :
        e.kind = "default" => (e.status = "returned" /\ e.snap = AllDefaultsModel)

\* a call without argument has returned after an earlier such call whose
\* record the caller modified
C10_Witness ==
    /\ Len(log[MainCaller]) >= 2
    /\ LET e1 == log[MainCaller][1]
           e2 == log[MainCaller][2]
       IN  /\ e1.kind = "default" /\ e1.status = "returned"
           /\ e2.kind = "default" /\ e2.status = "returned"
           /\ e2.muts >= 1
           /\ Snapshot(heap, e1.ret) # e1.snap
           /\ e2.snap = AllDefaultsModel

====
